---- MODULE Spec2Model ----
(***************************************************************************)
(* Grok Validator backend (backend.py, config.py): the /run pipeline       *)
(* (validation, image analysis, routing and safety gate, fragment          *)
(* generation with continuation context, cost accounting), the process-    *)
(* wide latest_result slot and the /result endpoint.                       *)
(*                                                                         *)
(* Conventions of the model                                                *)
(*  - An optional value (a form field that may be missing, Python None)    *)
(*    is a sequence of length 0 or 1.                                      *)
(*  - A text the code inspects character by character (the prompt, the     *)
(*    duration field) is a sequence of one-character strings.              *)
(*  - A parsed JSON object is a record over JsonKeys whose missing keys    *)
(*    hold Absent; a value is the parsed Python value, its type and text.  *)
(*  - USD amounts are integers in units of 10^-8 USD, so that 6 decimals   *)
(*    are multiples of 100 and round(x, 6) is a real rounding.             *)
(***************************************************************************)
EXTENDS Integers, Sequences, FiniteSets, TLC

\* ------------------------------------------------------------------------
\* Bounds of the model
\* ------------------------------------------------------------------------

\* Number of /run requests the server receives; any of them may overlap.
MaxRequests == 2

\* Largest token count given to calculate_cost on its own.
MaxTokens == 12

\* ------------------------------------------------------------------------
\* config.py
\* ------------------------------------------------------------------------

AGENT1_MODEL == "grok-2-vision-1212"

AGENT2_MODEL == "grok-4-1-fast-non-reasoning"

AGENT3_MODEL == "grok-4-1-fast-non-reasoning"

ROUTE_TO_ADULT_WHEN_NSFW == TRUE

GATE_ALLOWED_VALUES == <<"no">>

VIDEO_DURATIONS == <<5, 10>>

DEFAULT_DURATION == 5

FRAGMENT_LENGTH == 5

MAX_IMAGE_SIZE_BYTES == 20 * 1024 * 1024

ALLOWED_IMAGE_TYPES == <<"image/jpeg", "image/jpg", "image/png">>

TRACK_COSTS == TRUE

\* Flask debug mode, handed to app.run (backend.py 699-703).
DEBUG_MODE == TRUE

\* Prices per million tokens, in cents (0.20 USD = 20).
MODEL_PRICING ==
  [m \in {"grok-2-vision-latest", "grok-2-vision-1212",
          "grok-4-1-fast-non-reasoning", "grok-4", "_default"} |->
     IF m = "grok-4"
       THEN [input_per_million |-> 200, output_per_million |-> 1000]
       ELSE [input_per_million |-> 20, output_per_million |-> 50]]

\* ------------------------------------------------------------------------
\* Python helpers
\* ------------------------------------------------------------------------

\* A value json.loads produced: its Python type and its text (str(x): the
\* content of a string, "True", "None", "0.0", "[]", ...).
PyValue(t, v) == [t |-> t, v |-> v]

PyBool(b) == PyValue("bool", IF b THEN "True" ELSE "False")

PyNone == PyValue("NoneType", "None")

PyInt(v) == PyValue("int", v)

PyFloat(v) == PyValue("float", v)

PyStr(v) == PyValue("str", v)

PyList(v) == PyValue("list", v)

PyDict(v) == PyValue("dict", v)

\* The key is not in the dictionary.
Absent == PyValue("<absent>", "")

\* x in list
InList(x, list) == \E k \in 1..Len(list) : list[k] = x

\* value in list, for a list of strings: only an equal string is in it
PyIn(value, list) == value.t = "str" /\ InList(value.v, list)

\* dict.get(key, default) on a parsed JSON object
Get(obj, key, default) == IF obj[key] = Absent THEN default ELSE obj[key]

\* bool(x) of a parsed value: false for False, None, a zero number, the
\* empty string, the empty list and the empty dictionary.
Truthy(value) ==
  CASE value.t = "bool" -> value.v = "True"
    [] value.t = "NoneType" -> FALSE
    [] value.t = "int" -> value.v # "0"
    [] value.t = "float" -> value.v \notin {"0.0", "-0.0"}
    [] value.t = "str" -> value.v # ""
    [] value.t = "list" -> value.v # "[]"
    [] value.t = "dict" -> value.v # "{}"
    [] OTHER -> FALSE

\* str.isspace() on the characters of the model's texts, which are ASCII:
\* space, \t, \n, \r, \f, the vertical tab (0x0B) and the separators
\* 0x1C-0x1F, the last five written as the characters themselves.
IsSpace(c) == c \in {" ", "\t", "\n", "\r", "\f", "", "", "", "", ""}

RECURSIVE LStrip(_)
LStrip(s) == IF s # <<>> /\ IsSpace(Head(s)) THEN LStrip(Tail(s)) ELSE s

RECURSIVE RStrip(_)
RStrip(s) ==
  IF s # <<>> /\ IsSpace(s[Len(s)]) THEN RStrip(SubSeq(s, 1, Len(s) - 1)) ELSE s

\* str.strip()
Strip(s) == RStrip(LStrip(s))

DigitValue(c) ==
  CASE c = "0" -> 0 [] c = "1" -> 1 [] c = "2" -> 2 [] c = "3" -> 3
    [] c = "4" -> 4 [] c = "5" -> 5 [] c = "6" -> 6 [] c = "7" -> 7
    [] c = "8" -> 8 [] c = "9" -> 9 [] OTHER -> -1

\* The white space int() skips around an ASCII text: space, \t, \n, \r, \f
\* and the vertical tab (0x0B), but not the separators 0x1C-0x1F that
\* str.strip() removes.
Py_ISSPACE(c) == c \in {" ", "\t", "\n", "\r", "\f", ""}

RECURSIVE IntLStrip(_)
IntLStrip(s) == IF s # <<>> /\ Py_ISSPACE(Head(s)) THEN IntLStrip(Tail(s)) ELSE s

RECURSIVE IntRStrip(_)
IntRStrip(s) ==
  IF s # <<>> /\ Py_ISSPACE(s[Len(s)]) THEN IntRStrip(SubSeq(s, 1, Len(s) - 1)) ELSE s

\* The value of a digit string; the underscores int() allows are skipped.
RECURSIVE DigitsValue(_, _)
DigitsValue(s, acc) ==
  IF s = <<>> THEN acc
  ELSE IF Head(s) = "_" THEN DigitsValue(Tail(s), acc)
  ELSE DigitsValue(Tail(s), 10 * acc + DigitValue(Head(s)))

\* The digits int() accepts: decimal digits, with single underscores between
\* two digits.
AllDigits(s) ==
  /\ s # <<>>
  /\ \A k \in 1..Len(s) :
       \/ DigitValue(s[k]) >= 0
       \/ /\ s[k] = "_"
          /\ 1 < k /\ k < Len(s)
          /\ DigitValue(s[k - 1]) >= 0
          /\ DigitValue(s[k + 1]) >= 0

\* int(text): <<n>> when the text is an optionally signed decimal integer
\* with optional surrounding whitespace, <<>> when int() raises ValueError.
IntParse(text) ==
  LET t == IntRStrip(IntLStrip(text))
      signed == t # <<>> /\ Head(t) \in {"+", "-"}
      digits == IF signed THEN Tail(t) ELSE t
  IN  IF ~AllDigits(digits) THEN <<>>
      ELSE IF signed /\ Head(t) = "-" THEN << 0 - DigitsValue(digits, 0) >>
      ELSE << DigitsValue(digits, 0) >>

\* ------------------------------------------------------------------------
\* Cost calculation
\* ------------------------------------------------------------------------

get_model_pricing(model) ==
  IF model \in DOMAIN MODEL_PRICING THEN MODEL_PRICING[model]
  ELSE MODEL_PRICING["_default"]

\* The float expression (i / 1e6) * 0.20 + (o / 1e6) * 0.50 lies, in binary
\* double arithmetic, just above or just below the decimal midpoint whenever
\* 20 i + 50 o ends in 50; round(x, 6) then follows the double.  These are the
\* token pairs <<i, o>> with i, o <= 25 for which the double lies above the
\* midpoint (the output cost alone is the pair <<0, o>>).
HalfwayRoundsUp ==
  { <<0, 3>>, <<0, 5>>, <<0, 9>>, <<0, 15>>, <<0, 19>>, <<0, 23>>, <<0, 25>>,
    <<5, 1>>, <<5, 3>>, <<5, 5>>, <<5, 7>>, <<5, 11>>, <<5, 17>>, <<5, 19>>,
    <<5, 21>>, <<5, 23>>, <<5, 25>>, <<10, 1>>, <<10, 3>>, <<10, 5>>,
    <<10, 9>>, <<10, 11>>, <<10, 15>>, <<10, 17>>, <<10, 19>>, <<10, 25>>,
    <<15, 3>>, <<15, 7>>, <<15, 9>>, <<15, 13>>, <<15, 15>>, <<15, 17>>,
    <<15, 19>>, <<15, 23>>, <<15, 25>>, <<20, 1>>, <<20, 3>>, <<20, 5>>,
    <<20, 7>>, <<20, 11>>, <<20, 13>>, <<20, 15>>, <<20, 17>>, <<20, 19>>,
    <<20, 21>>, <<20, 23>>, <<20, 25>>, <<25, 1>>, <<25, 3>>, <<25, 5>>,
    <<25, 9>>, <<25, 11>>, <<25, 13>>, <<25, 15>>, <<25, 19>>, <<25, 21>>,
    <<25, 23>>, <<25, 25>> }

\* round(x, 6) of an amount in 10^-8 USD; up decides an exact decimal tie.
Round6(x, up) ==
  LET q == x \div 100
      r == x % 100
  IN  IF r < 50 THEN 100 * q
      ELSE IF r > 50 THEN 100 * (q + 1)
      ELSE IF up THEN 100 * (q + 1) ELSE 100 * q

\* Mutant: the total leaves out the output cost.
calculate_cost_total_is_input(model, input_tokens, output_tokens) ==
  LET pricing == get_model_pricing(model)
      input_cost == input_tokens * pricing.input_per_million
      output_cost == output_tokens * pricing.output_per_million
      total_cost == input_cost
  IN  [model |-> model,
       input_tokens |-> input_tokens,
       output_tokens |-> output_tokens,
       total_tokens |-> input_tokens + output_tokens,
       input_cost_usd |-> Round6(input_cost, FALSE),
       output_cost_usd |-> Round6(output_cost, <<0, output_tokens>> \in HalfwayRoundsUp),
       total_cost_usd |-> Round6(total_cost, FALSE),
       pricing |-> pricing]

calculate_cost(model, input_tokens, output_tokens) ==
  LET pricing == get_model_pricing(model)
      input_cost == input_tokens * pricing.input_per_million
      output_cost == output_tokens * pricing.output_per_million
      total_cost == input_cost + output_cost
  IN  [model |-> model,
       input_tokens |-> input_tokens,
       output_tokens |-> output_tokens,
       total_tokens |-> input_tokens + output_tokens,
       input_cost_usd |-> Round6(input_cost, FALSE),
       output_cost_usd |-> Round6(output_cost, <<0, output_tokens>> \in HalfwayRoundsUp),
       total_cost_usd |->
         Round6(total_cost, <<input_tokens, output_tokens>> \in HalfwayRoundsUp),
       pricing |-> pricing]

\* ------------------------------------------------------------------------
\* Routing and safety gate
\* ------------------------------------------------------------------------

\* Mutant: the gate is evaluated on every request, before the nsfw test.
route_with_gate_always(agent1_result, route_to_adult, gate_allowed) ==
  LET nsfw == Get(agent1_result, "nsfw", PyBool(FALSE))
      minor_status == Get(agent1_result, "minor_under_16", PyStr("unclear"))
  IN  IF ~PyIn(minor_status, gate_allowed)
        THEN [agent |-> "blocked", gate_applied |-> TRUE, gate_passed |-> "False",
              reason |-> <<"Adult content blocked: minor_under_16=",
                           minor_status.v, "requires">> \o gate_allowed]
      ELSE IF Truthy(nsfw) /\ route_to_adult
        THEN [agent |-> "agent3", gate_applied |-> TRUE, gate_passed |-> "True",
              reason |-> <<"Adult content allowed: no minors detected">>]
      ELSE [agent |-> "agent2", gate_applied |-> TRUE, gate_passed |-> "True",
            reason |-> <<"Neutral content: routed to safe enhancer">>]

\* Mutant: a missing minor_under_16 field defaults to "no".
route_with_default_no(agent1_result, route_to_adult, gate_allowed) ==
  LET nsfw == Get(agent1_result, "nsfw", PyBool(FALSE))
      minor_status == Get(agent1_result, "minor_under_16", PyStr("no"))
  IN  IF Truthy(nsfw) /\ route_to_adult
        THEN IF ~PyIn(minor_status, gate_allowed)
               THEN [agent |-> "blocked", gate_applied |-> TRUE, gate_passed |-> "False",
                     reason |-> <<"Adult content blocked: minor_under_16=",
                                  minor_status.v, "requires">> \o gate_allowed]
               ELSE [agent |-> "agent3", gate_applied |-> TRUE, gate_passed |-> "True",
                     reason |-> <<"Adult content allowed: no minors detected">>]
        ELSE [agent |-> "agent2", gate_applied |-> FALSE, gate_passed |-> "None",
              reason |-> <<"Neutral content: routed to safe enhancer">>]

\* Mutant: a block on "yes" is reported with a reason of its own.
route_with_positive_reason(agent1_result, route_to_adult, gate_allowed) ==
  LET nsfw == Get(agent1_result, "nsfw", PyBool(FALSE))
      minor_status == Get(agent1_result, "minor_under_16", PyStr("unclear"))
  IN  IF Truthy(nsfw) /\ route_to_adult
        THEN IF ~PyIn(minor_status, gate_allowed)
               THEN [agent |-> "blocked", gate_applied |-> TRUE, gate_passed |-> "False",
                     reason |-> IF minor_status = PyStr("yes")
                                  THEN <<"Adult content blocked: minor detected">>
                                  ELSE <<"Adult content blocked: minor_under_16=",
                                         minor_status.v, "requires">> \o gate_allowed]
               ELSE [agent |-> "agent3", gate_applied |-> TRUE, gate_passed |-> "True",
                     reason |-> <<"Adult content allowed: no minors detected">>]
        ELSE [agent |-> "agent2", gate_applied |-> FALSE, gate_passed |-> "None",
              reason |-> <<"Neutral content: routed to safe enhancer">>]

\* determine_route with the two configuration values it reads as parameters.
route_with(agent1_result, route_to_adult, gate_allowed) ==
  LET nsfw == Get(agent1_result, "nsfw", PyBool(FALSE))
      minor_status == Get(agent1_result, "minor_under_16", PyStr("unclear"))
  IN  IF Truthy(nsfw) /\ route_to_adult
        THEN IF ~PyIn(minor_status, gate_allowed)
               THEN [agent |-> "blocked",
                     gate_applied |-> TRUE,
                     gate_passed |-> "False",
                     reason |-> <<"Adult content blocked: minor_under_16=",
                                  minor_status.v, "requires">> \o gate_allowed]
               ELSE [agent |-> "agent3",
                     gate_applied |-> TRUE,
                     gate_passed |-> "True",
                     reason |-> <<"Adult content allowed: no minors detected">>]
        ELSE [agent |-> "agent2",
              gate_applied |-> FALSE,
              gate_passed |-> "None",
              reason |-> <<"Neutral content: routed to safe enhancer">>]

determine_route(agent1_result) ==
  route_with(agent1_result, ROUTE_TO_ADULT_WHEN_NSFW, GATE_ALLOWED_VALUES)

\* ------------------------------------------------------------------------
\* Values exchanged with the external model
\* ------------------------------------------------------------------------

JsonKeys == {"nsfw", "minor_under_16", "people_count", "description", "prompt", "notes"}

NoObj == [k \in JsonKeys |-> Absent]

\* One line of a model reply: a line opening a code fence ("```json"), a bare
\* fence line ("```"), a line holding one JSON object, or other text.
Line(kind, obj) == [kind |-> kind, obj |-> obj, err |-> ""]

FenceOpen == Line("fence_open", NoObj)

Fence == Line("fence", NoObj)

\* A line of text that is not JSON; err is the message of the JSONDecodeError
\* json.loads raises where the text stops being JSON ("Expecting value",
\* "Expecting ',' delimiter", "Unterminated string starting at", ...).
Malformed(err) == [kind |-> "text", obj |-> NoObj, err |-> err]

\* '{"nsfw": true', an object cut off
CutOff == Malformed("Expecting ',' delimiter")

Usage(i, o) == << [prompt_tokens |-> i, completion_tokens |-> o] >>

\* An exception: its class, str(e), and the names of the classes it is an
\* instance of (its own class first, as in __mro__).
Exc(mro, msg) == [type |-> mro[1], msg |-> msg, mro |-> mro]

NoExc == [type |-> "", msg |-> "", mro |-> <<>>]

ValueErrorMRO == <<"ValueError", "Exception">>

JSONDecodeErrorMRO == <<"JSONDecodeError", "ValueError", "Exception">>

KeyErrorMRO == <<"KeyError", "LookupError", "Exception">>

APIConnectionErrorMRO == <<"APIConnectionError", "APIError", "OpenAIError", "Exception">>

UnicodeDecodeErrorMRO == <<"UnicodeDecodeError", "UnicodeError", "ValueError", "Exception">>

RecursionErrorMRO == <<"RecursionError", "RuntimeError", "Exception">>

\* What client.chat.completions.create gives back: a response (raw content
\* and optional usage) or a raised exception.
Reply(raw, usage) == [raised |-> NoExc, raw |-> raw, usage |-> usage]

Raised(mro, msg) == [raised |-> Exc(mro, msg), raw |-> <<>>, usage |-> <<>>]

AnalysisA ==
  [NoObj EXCEPT !["nsfw"] = PyBool(FALSE), !["minor_under_16"] = PyStr("unclear"),
                !["people_count"] = PyInt("2"),
                !["description"] = PyStr("two people at a park")]

AnalysisB ==
  [NoObj EXCEPT !["nsfw"] = PyBool(TRUE), !["minor_under_16"] = PyStr("no"),
                !["description"] = PyStr("a person on a beach")]

AnalysisC ==
  [NoObj EXCEPT !["nsfw"] = PyBool(TRUE), !["minor_under_16"] = PyStr("yes")]

\* A list nested to a depth that json.loads, called from run_agent1, still
\* parses, and at which the JSON encoder behind jsonify, which meets the list
\* inside the result and further down the call stack, exceeds the
\* interpreter's recursion limit (with a limit of 1000, some 990 levels).
TooDeep == PyList("[[[[...]]]]")

\* A model output that holds such a list under a key the pipeline does not read.
AnalysisD == [AnalysisC EXCEPT !["notes"] = TooDeep]

ErrorReplies ==
  { Raised(APIConnectionErrorMRO, "Connection error"),
    Raised(UnicodeDecodeErrorMRO, "'utf-8' codec can't decode byte 0xff") }

Agent1Replies ==
  ErrorReplies \cup
  { Reply(<<Line("json", AnalysisA)>>, Usage(5, 1)),
    Reply(<<FenceOpen, Line("json", AnalysisB), Fence>>, <<>>),
    Reply(<<Line("json", AnalysisC)>>, Usage(12, 3)),
    Reply(<<Line("json", AnalysisD)>>, Usage(5, 1)),
    Reply(<<CutOff>>, Usage(5, 1)),
    Reply(<<Line("json", AnalysisA), Line("json", AnalysisB)>>, Usage(5, 1)) }

EnhancerReplies ==
  { Raised(APIConnectionErrorMRO, "Connection error"),
    Reply(<<Line("json", [NoObj EXCEPT !["prompt"] = PyStr("t1")])>>, Usage(2, 1)),
    Reply(<<Line("json", [NoObj EXCEPT !["prompt"] = PyStr("t2"), !["nsfw"] = PyBool(FALSE)])>>,
          Usage(7, 4)),
    Reply(<<FenceOpen, Line("json", [NoObj EXCEPT !["prompt"] = PyStr("t1")]), Fence>>,
          Usage(2, 1)) }

\* json.loads of the text made of these lines: <<obj>>, or <<>> when it raises
\* JSONDecodeError (anything but exactly one JSON document).
json_loads(lines) ==
  IF Len(lines) = 1 /\ lines[1].kind = "json" THEN << lines[1].obj >> ELSE <<>>

\* The JSONDecodeError json.loads raises on these lines: "Extra data" when
\* text follows a complete JSON document, "Expecting value" on an empty text
\* or a code fence, and on other text the message of the place where it
\* stops being JSON (the position that follows in the message is left out).
JSONDecodeError(lines) ==
  Exc(JSONDecodeErrorMRO,
      IF lines = <<>> THEN "Expecting value"
      ELSE IF lines[1].kind = "json" THEN "Extra data"
      ELSE IF lines[1].kind = "text" THEN lines[1].err
      ELSE "Expecting value")

\* usage.prompt_tokens if usage else 0, usage.completion_tokens if usage else 0
UsageTokens(usage) ==
  IF usage = <<>> THEN [prompt_tokens |-> 0, completion_tokens |-> 0, total_tokens |-> 0]
  ELSE [prompt_tokens |-> usage[1].prompt_tokens,
        completion_tokens |-> usage[1].completion_tokens,
        total_tokens |-> usage[1].prompt_tokens + usage[1].completion_tokens]

\* Lines 167-171: a reply starting with a code fence loses its first line, and
\* its last line too when that is a bare fence.
strip_code_fence(raw) ==
  IF raw # <<>> /\ raw[1].kind \in {"fence_open", "fence"}
    THEN IF raw[Len(raw)].kind = "fence"
           THEN SubSeq(raw, 2, Len(raw) - 1)
           ELSE SubSeq(raw, 2, Len(raw))
    ELSE raw

\* run_agent1 after the call: (exception, parsed_result, cost_info, details)
run_agent1(reply) ==
  LET tokens == UsageTokens(reply.usage)
      cost_info == calculate_cost(AGENT1_MODEL, tokens.prompt_tokens,
                                  tokens.completion_tokens)
      parsed == json_loads(strip_code_fence(reply.raw))
  IN  IF reply.raised # NoExc
        THEN [exc |-> reply.raised, parsed |-> NoObj, cost |-> cost_info,
              details |-> [raw_content |-> <<>>, usage |-> tokens]]
      ELSE IF parsed = <<>>
        THEN [exc |-> JSONDecodeError(strip_code_fence(reply.raw)), parsed |-> NoObj,
              cost |-> cost_info,
              details |-> [raw_content |-> reply.raw, usage |-> tokens]]
      ELSE [exc |-> NoExc, parsed |-> parsed[1], cost |-> cost_info,
            details |-> [raw_content |-> reply.raw, usage |-> tokens]]

\* The time range "{start}-{end} sec" of fragment k
TimeRange(fragment_num) ==
  [start |-> (fragment_num - 1) * FRAGMENT_LENGTH, end |-> fragment_num * FRAGMENT_LENGTH]

\* build_user_message: the values interpolated into the message template;
\* continuation holds the previous fragment's time range and prompt when the
\* "Previous Fragment" section is appended.
build_user_message(user_prompt, image_description, people_count, previous_fragment) ==
  [people_count |-> people_count,
   description |-> image_description,
   user_prompt |-> user_prompt,
   continuation |->
     IF previous_fragment # <<>>
       THEN << [time_range |-> previous_fragment[1].time_range,
                prompt |-> previous_fragment[1].prompt] >>
       ELSE <<>>]

EnhancerModel(agent_name) == IF agent_name = "agent3" THEN AGENT3_MODEL ELSE AGENT2_MODEL

\* run_prompt_enhancer after the call: no code-fence handling here.
run_prompt_enhancer(agent_name, reply) ==
  LET tokens == UsageTokens(reply.usage)
      cost_info == calculate_cost(EnhancerModel(agent_name), tokens.prompt_tokens,
                                  tokens.completion_tokens)
      parsed == json_loads(reply.raw)
  IN  IF reply.raised # NoExc
        THEN [exc |-> reply.raised, parsed |-> NoObj, cost |-> cost_info, raw |-> <<>>]
      ELSE IF parsed = <<>>
        THEN [exc |-> JSONDecodeError(reply.raw), parsed |-> NoObj, cost |-> cost_info,
              raw |-> reply.raw]
      ELSE [exc |-> NoExc, parsed |-> parsed[1], cost |-> cost_info, raw |-> reply.raw]

\* ------------------------------------------------------------------------
\* Responses of /run
\* ------------------------------------------------------------------------

Response(status, error, body) == [status |-> status, error |-> error, body |-> body]

\* isinstance(e, cls): cls is the exception's class or one of its bases.
IsInstance(exc, cls) == InList(cls, exc.mro)

\* isinstance(e, ValueError): true of every subclass, json.JSONDecodeError
\* among them.
IsValueError(exc) == IsInstance(exc, "ValueError")

\* The except clauses of run_pipeline, tried in source order.
error_response(exc) ==
  IF IsValueError(exc)
    THEN Response(500, <<exc.msg>>, <<>>)
  ELSE IF IsInstance(exc, "JSONDecodeError")
    THEN Response(500, <<"Failed to parse JSON response: ", exc.msg>>, <<>>)
  ELSE Response(500, <<"Pipeline failed: ", exc.type, ": ", exc.msg>>, <<>>)

\* ------------------------------------------------------------------------
\* The multipart form of a /run request and its validation
\* ------------------------------------------------------------------------

Form(has_image, prompt, duration, content_type, size) ==
  [has_image |-> has_image, prompt |-> prompt, duration |-> duration,
   content_type |-> content_type, size |-> size]

NoForm == Form(FALSE, <<>>, <<>>, "", 0)

GoodPrompt == << <<" ", "a", " ">> >>

GoodForm(duration) == Form(TRUE, GoodPrompt, duration, "image/png", 1024)

\* The requests the clients send: two well-formed ones (no duration field and
\* an image of exactly the size ceiling; duration 10) and ill-formed ones,
\* among them a prompt of white space (a vertical tab, CR, LF), a duration
\* int() reads as 7 (a vertical tab, "0_7" and a carriage return) and one it
\* rejects ("1__0").
Forms ==
  { [GoodForm(<<>>) EXCEPT !.size = MAX_IMAGE_SIZE_BYTES, !.content_type = "image/jpeg"],
    GoodForm(<< <<"1", "0">> >>),
    [GoodForm(<< <<"x">> >>) EXCEPT !.has_image = FALSE],
    [GoodForm(<< <<"1", "0">> >>) EXCEPT !.prompt = << <<"", "\r", "\n">> >>],
    [GoodForm(<< <<"x">> >>) EXCEPT !.prompt = <<>>],
    GoodForm(<< <<"", "0", "_", "7", "\r">> >>),
    GoodForm(<< <<"1", "_", "_", "0">> >>),
    GoodForm(<< <<"-", "5">> >>),
    GoodForm(<< <<"x">> >>),
    GoodForm(<< <<>> >>),
    [GoodForm(<< <<" ", "5">> >>) EXCEPT !.size = MAX_IMAGE_SIZE_BYTES + 1],
    [GoodForm(<<>>) EXCEPT !.content_type = "image/gif",
                           !.size = MAX_IMAGE_SIZE_BYTES + 1] }

\* request.form.get(field, default)
FormGet(field, default) == IF field = <<>> THEN default ELSE field[1]

Rejected(response) ==
  [response |-> <<response>>, user_prompt |-> <<>>, duration |-> 0, exc |-> NoExc]

\* The exception leaves the try block and an except clause answers.
Raises(exc) ==
  [response |-> << error_response(exc) >>, user_prompt |-> <<>>, duration |-> 0,
   exc |-> exc]

\* Mutant: the size check is missing.
validate_inputs_no_size_check(form) ==
  IF ~form.has_image
    THEN Rejected(Response(400, <<"No image file provided">>, <<>>))
  ELSE
    LET user_prompt == Strip(FormGet(form.prompt, <<>>))
        duration == IF form.duration = <<>> THEN << DEFAULT_DURATION >>
                    ELSE IntParse(form.duration[1])
    IN  IF duration = <<>>
          THEN Raises(Exc(ValueErrorMRO, "invalid literal for int() with base 10"))
        ELSE IF user_prompt = <<>>
          THEN Rejected(Response(400, <<"No prompt provided">>, <<>>))
        ELSE IF ~InList(duration[1], VIDEO_DURATIONS)
          THEN Rejected(Response(400, <<"Invalid duration. Allowed: ">>, <<>>))
        ELSE IF ~InList(form.content_type, ALLOWED_IMAGE_TYPES)
          THEN Rejected(Response(400, <<"Unsupported image type: ", form.content_type>>, <<>>))
        ELSE [response |-> <<>>, user_prompt |-> user_prompt, duration |-> duration[1],
              exc |-> NoExc]

\* Lines 436-463: the checks of run_pipeline in source order.  int() of the
\* duration field runs before the prompt check and raises ValueError inside
\* the try block.
validate_inputs(form) ==
  IF ~form.has_image
    THEN Rejected(Response(400, <<"No image file provided">>, <<>>))
  ELSE
    LET user_prompt == Strip(FormGet(form.prompt, <<>>))
        duration == IF form.duration = <<>> THEN << DEFAULT_DURATION >>
                    ELSE IntParse(form.duration[1])
    IN  IF duration = <<>>
          THEN Raises(Exc(ValueErrorMRO, "invalid literal for int() with base 10"))
        ELSE IF user_prompt = <<>>
          THEN Rejected(Response(400, <<"No prompt provided">>, <<>>))
        ELSE IF ~InList(duration[1], VIDEO_DURATIONS)
          THEN Rejected(Response(400, <<"Invalid duration. Allowed: ">>, <<>>))
        ELSE IF ~InList(form.content_type, ALLOWED_IMAGE_TYPES)
          THEN Rejected(Response(400, <<"Unsupported image type: ", form.content_type>>, <<>>))
        ELSE IF form.size > MAX_IMAGE_SIZE_BYTES
          THEN Rejected(Response(400, <<"Image too large. Maximum size is ">>, <<>>))
        ELSE [response |-> <<>>, user_prompt |-> user_prompt, duration |-> duration[1],
              exc |-> NoExc]

\* ------------------------------------------------------------------------
\* Cost tracking and result assembly in run_pipeline
\* ------------------------------------------------------------------------

\* Lines 471-480
InitialCosts ==
  [agent1 |-> <<>>, fragments |-> <<>>,
   total |-> [input_tokens |-> 0, output_tokens |-> 0, total_tokens |-> 0,
              total_cost_usd |-> 0]]

\* Mutant: the token total is advanced by the input tokens only.
AddToTotal_input_as_total(total, cost) ==
  [input_tokens |-> total.input_tokens + cost.input_tokens,
   output_tokens |-> total.output_tokens + cost.output_tokens,
   total_tokens |-> total.total_tokens + cost.input_tokens,
   total_cost_usd |-> total.total_cost_usd + cost.total_cost_usd]

\* Mutant: the USD total accumulates the unrounded cost of each call.
AddToTotal_full_precision(total, cost) ==
  [input_tokens |-> total.input_tokens + cost.input_tokens,
   output_tokens |-> total.output_tokens + cost.output_tokens,
   total_tokens |-> total.total_tokens + cost.total_tokens,
   total_cost_usd |-> total.total_cost_usd
                        + cost.input_tokens * cost.pricing.input_per_million
                        + cost.output_tokens * cost.pricing.output_per_million]

\* The four += of lines 495-498 and 589-592
AddToTotal(total, cost) ==
  [input_tokens |-> total.input_tokens + cost.input_tokens,
   output_tokens |-> total.output_tokens + cost.output_tokens,
   total_tokens |-> total.total_tokens + cost.total_tokens,
   total_cost_usd |-> total.total_cost_usd + cost.total_cost_usd]

\* Lines 494-498
RecordAgent1Cost(costs, agent1_cost) ==
  [costs EXCEPT !.agent1 = << agent1_cost >>,
                !.total = AddToTotal(costs.total, agent1_cost)]

\* Lines 588-592
RecordFragmentCost(costs, frag_cost) ==
  [costs EXCEPT !.fragments = Append(costs.fragments, frag_cost),
                !.total = AddToTotal(costs.total, frag_cost)]

\* Lines 523 and 595: the sum of 6-decimal amounts has no decimal tie.
RoundTotal(costs) ==
  [costs EXCEPT !.total.total_cost_usd = Round6(costs.total.total_cost_usd, FALSE)]

\* Lines 509-517; "costs" is the costs object itself, attached by WithCosts.
BuildResult(duration, num_fragments, agent1, routing) ==
  [duration |-> duration,
   num_fragments |-> num_fragments,
   agent1_result |-> agent1.parsed,
   agent1_details |-> agent1.details,
   routing |-> routing,
   fragments |-> <<>>,
   costs |-> <<>>,
   blocked |-> FALSE,
   blocked_reason |-> <<>>]

\* result["costs"] is the costs dictionary (or None without cost tracking)
WithCosts(result, costs) ==
  [result EXCEPT !.costs = IF TRACK_COSTS THEN << costs >> ELSE <<>>]

\* Lines 521-522
MarkBlocked(result) ==
  [result EXCEPT !.blocked = TRUE, !.blocked_reason = result.routing.reason]

\* Mutant: the continuation carries the current fragment's time range.
PreviousFragment_current_range(fragment_num, fragments) ==
  IF fragment_num > 1 /\ Len(fragments) > 0
    THEN LET prev == fragments[Len(fragments)]
         IN  [raises |-> prev.result["prompt"] = Absent,
              value |-> << [prompt |-> prev.result["prompt"],
                            time_range |-> TimeRange(fragment_num)] >>]
    ELSE [raises |-> FALSE, value |-> <<>>]

\* Lines 540-546: the previous fragment's prompt and time range, for
\* fragment 2 and later; "raises" when the previous result has no "prompt" key.
PreviousFragment(fragment_num, fragments) ==
  IF fragment_num > 1 /\ Len(fragments) > 0
    THEN LET prev == fragments[Len(fragments)]
         IN  [raises |-> prev.result["prompt"] = Absent,
              value |-> << [prompt |-> prev.result["prompt"],
                            time_range |-> prev.time_range] >>]
    ELSE [raises |-> FALSE, value |-> <<>>]

DemoNote == "DEMO MODE: Using same uploaded image. PRODUCTION: Use last frame of previous video fragment as first frame."

\* Mutant: the note is attached to every fragment.
FragmentInfo_note_always(fragment_num, agent_name, enh, user_content) ==
  [fragment_number |-> fragment_num,
   time_range |-> TimeRange(fragment_num),
   agent_used |-> agent_name,
   result |-> enh.parsed,
   details |-> [user_content |-> user_content, raw_content |-> enh.raw],
   cost |-> enh.cost,
   demo_note |-> << DemoNote >>]

\* Lines 562-581
FragmentInfo(fragment_num, agent_name, enh, user_content) ==
  [fragment_number |-> fragment_num,
   time_range |-> TimeRange(fragment_num),
   agent_used |-> agent_name,
   result |-> enh.parsed,
   details |-> [user_content |-> user_content, raw_content |-> enh.raw],
   cost |-> enh.cost,
   demo_note |-> IF fragment_num > 1 THEN << DemoNote >> ELSE <<>>]

\* ------------------------------------------------------------------------
\* State
\* ------------------------------------------------------------------------

VARIABLES
  api_key,        \* whether XAI_API_KEY is set in the process environment
  latest_result,  \* the module-level latest_result: <<>> is None
  req,            \* per /run request: where its handler is, its locals, and
                  \* whether it has assigned latest_result (history)
  last_returned,  \* the body of the most recent 200 response of /run (history)
  route_in,       \* determine_route on its own: the argument and configuration
  route_out,      \* determine_route on its own: the decision, once computed
  cost_in,        \* calculate_cost on its own: the arguments
  cost_out        \* calculate_cost on its own: the record, once returned

vars == <<api_key, latest_result, req, last_returned, route_in, route_out, cost_in, cost_out>>

Requests == 1..MaxRequests

\* A request that has not arrived: the locals of run_pipeline before line 436.
IdleReq ==
  [pc |-> "idle", form |-> NoForm, user_prompt |-> <<>>, duration |-> 0,
   client |-> FALSE, costs |-> InitialCosts, result |-> <<>>, fragment_num |-> 0,
   calls |-> <<>>, response |-> <<>>, failure |-> NoExc, stored |-> FALSE]

\* One request to the external model, as the client sends it.
Call(agent, model, image_type, message) ==
  [agent |-> agent, model |-> model, image_type |-> image_type, message |-> message]

\* The handler returns: its locals are gone, the response is out.  The form,
\* the calls issued, whether a client was created and whether the handler
\* assigned latest_result stay on record.
Returned(q, response) ==
  [IdleReq EXCEPT !.pc = "done", !.form = q.form, !.client = q.client,
                  !.calls = q.calls, !.response = << response >>,
                  !.stored = q.stored]

\* The handler leaves through an except clause: the exception is answered by
\* error_response and stays on record.
Failed_with(q, exc) == [Returned(q, error_response(exc)) EXCEPT !.failure = exc]

NoRouteIn == [analysis |-> NoObj, route_to_adult |-> FALSE, gate_allowed |-> <<>>]

NoCostIn == [model |-> "", input_tokens |-> 0, output_tokens |-> 0]

Init ==
  /\ api_key \in BOOLEAN
  /\ latest_result = <<>>
  /\ req = [r \in Requests |-> IdleReq]
  /\ last_returned = <<>>
  /\ route_in = NoRouteIn
  /\ route_out = <<>>
  /\ cost_in = NoCostIn
  /\ cost_out = <<>>

\* ------------------------------------------------------------------------
\* POST /run, step by step
\* ------------------------------------------------------------------------

\* Lines 436-465: a request arrives (the requests are numbered in arrival
\* order) and is validated.
Validate(r, form) ==
  /\ req[r].pc = "idle"
  /\ IF r = 1 THEN TRUE ELSE req[r - 1].pc # "idle"
  /\ LET v == validate_inputs(form)
         q == [IdleReq EXCEPT !.form = form]
     IN  req' = [req EXCEPT ![r] =
                   IF v.response # <<>>
                     THEN [Returned(q, v.response[1]) EXCEPT !.failure = v.exc]
                   ELSE [q EXCEPT !.pc = "get_client", !.user_prompt = v.user_prompt,
                                  !.duration = v.duration]]
  /\ UNCHANGED <<api_key, latest_result, last_returned, route_in, route_out, cost_in, cost_out>>

\* Lines 468-483: get_client raises ValueError without a key; otherwise the
\* client exists and cost tracking starts.
GetClient(r) ==
  /\ req[r].pc = "get_client"
  /\ req' = [req EXCEPT ![r] =
               IF ~api_key
                 THEN Failed_with(req[r],
                        Exc(ValueErrorMRO, "XAI_API_KEY environment variable is not set"))
                 ELSE [req[r] EXCEPT !.pc = "agent1", !.client = TRUE,
                                     !.costs = InitialCosts]]
  /\ UNCHANGED <<api_key, latest_result, last_returned, route_in, route_out, cost_in, cost_out>>

\* Lines 118-153: the image-analysis call is sent.
Agent1Call(r) ==
  /\ req[r].pc = "agent1"
  /\ req' = [req EXCEPT ![r] =
               [req[r] EXCEPT !.pc = "agent1_wait",
                              !.calls = Append(req[r].calls,
                                  Call("agent1", AGENT1_MODEL, req[r].form.content_type, <<>>))]]
  /\ UNCHANGED <<api_key, latest_result, last_returned, route_in, route_out, cost_in, cost_out>>

\* Mutant: a single fragment whatever the duration.
NumFragments_always_one(duration) == duration \div duration

NumFragments(duration) == duration \div FRAGMENT_LENGTH

\* Mutant: a blocked route does not short-circuit the pipeline.
AfterAgent1_no_short_circuit(q, reply) ==
  LET a == run_agent1(reply)
      costs == RecordAgent1Cost(q.costs, a.cost)
      routing == determine_route(a.parsed)
      result == BuildResult(q.duration, NumFragments(q.duration), a, routing)
  IN  IF a.exc # NoExc THEN Failed_with(q, a.exc)
      ELSE [q EXCEPT !.costs = costs, !.result = << result >>,
                     !.pc = "fragment", !.fragment_num = 1]

\* Lines 155-209 and 493-517: the analysis call returns or raises; the cost
\* is recorded, the route decided and the result structure built.
AfterAgent1(q, reply) ==
  LET a == run_agent1(reply)
      costs == RecordAgent1Cost(q.costs, a.cost)
      routing == determine_route(a.parsed)
      result == BuildResult(q.duration, NumFragments(q.duration), a, routing)
  IN  IF a.exc # NoExc THEN Failed_with(q, a.exc)
      ELSE [q EXCEPT !.costs = costs, !.result = << result >>,
                     !.pc = IF routing.agent = "blocked" THEN "blocked" ELSE "fragment",
                     !.fragment_num = IF routing.agent = "blocked" THEN 0 ELSE 1]

Agent1Return(r, reply) ==
  /\ req[r].pc = "agent1_wait"
  /\ req' = [req EXCEPT ![r] = AfterAgent1(req[r], reply)]
  /\ UNCHANGED <<api_key, latest_result, last_returned, route_in, route_out, cost_in, cost_out>>

\* flask.jsonify(result): the 200 response that carries the result, or the
\* RecursionError of the JSON encoder when the result holds a value nested
\* too deep for it.  The raw model output in the details is a string and
\* always serializes.
Serializable(obj) == \A k \in JsonKeys : obj[k] # TooDeep

\* The message of that RecursionError.  In debug mode Flask indents the
\* JSON, which selects json's encoder written in Python; otherwise the
\* compiled encoder runs.
RecursionErrorMessage ==
  IF DEBUG_MODE
    THEN "maximum recursion depth exceeded while calling a Python object"
    ELSE "maximum recursion depth exceeded while encoding a JSON object"

jsonify(result) ==
  [raised |-> IF /\ Serializable(result.agent1_result)
                 /\ \A k \in 1..Len(result.fragments) :
                      Serializable(result.fragments[k].result)
                THEN NoExc
                ELSE Exc(RecursionErrorMRO, RecursionErrorMessage),
   response |-> Response(200, <<>>, << result >>)]

\* Lines 521-523: the blocked result is finalized.
BlockedResult(q) == WithCosts(MarkBlocked(q.result[1]), RoundTotal(q.costs))

\* Lines 521-524: the finalized blocked result is assigned to latest_result;
\* the handler has not returned yet.
StoreBlocked(r) ==
  /\ req[r].pc = "blocked"
  /\ latest_result' = << BlockedResult(req[r]) >>
  /\ req' = [req EXCEPT ![r] =
               [req[r] EXCEPT !.pc = "return", !.result = << BlockedResult(req[r]) >>,
                              !.costs = RoundTotal(req[r].costs), !.stored = TRUE]]
  /\ UNCHANGED <<api_key, last_returned, route_in, route_out, cost_in, cost_out>>

\* Lines 530-559 and 339-369: the loop body up to the enhancer call.  Reading
\* the previous fragment's prompt raises KeyError when the model left it out.
BeforeFragment(q) ==
  LET result == q.result[1]
      agent_name == result.routing.agent
      previous_fragment == PreviousFragment(q.fragment_num, result.fragments)
      user_content ==
        build_user_message(q.user_prompt,
                           Get(result.agent1_result, "description", PyStr("")),
                           Get(result.agent1_result, "people_count", PyInt("0")),
                           previous_fragment.value)
  IN  IF previous_fragment.raises
        THEN Failed_with(q, Exc(KeyErrorMRO, "'prompt'"))
        ELSE [q EXCEPT !.pc = "fragment_wait",
                       !.calls = Append(q.calls,
                           Call(agent_name, EnhancerModel(agent_name), "", << user_content >>))]

FragmentCall(r) ==
  /\ req[r].pc = "fragment"
  /\ req' = [req EXCEPT ![r] = BeforeFragment(req[r])]
  /\ UNCHANGED <<api_key, latest_result, last_returned, route_in, route_out, cost_in, cost_out>>

\* Mutant: a failed enhancer call is issued again.
AfterFragment_retries(q, reply) ==
  LET result == q.result[1]
      agent_name == result.routing.agent
      enh == run_prompt_enhancer(agent_name, reply)
      user_content == q.calls[Len(q.calls)].message[1]
      fragment_info == FragmentInfo(q.fragment_num, agent_name, enh, user_content)
  IN  IF enh.exc # NoExc THEN [q EXCEPT !.pc = "fragment"]
      ELSE [q EXCEPT !.result = << [result EXCEPT !.fragments = Append(@, fragment_info)] >>,
                     !.costs = RecordFragmentCost(q.costs, enh.cost),
                     !.pc = IF q.fragment_num < result.num_fragments
                              THEN "fragment" ELSE "finalize",
                     !.fragment_num = q.fragment_num + 1]

\* Lines 371-405 and 561-592: the enhancer call returns or raises; the
\* fragment and its cost are appended and the loop goes on or ends.
AfterFragment(q, reply) ==
  LET result == q.result[1]
      agent_name == result.routing.agent
      enh == run_prompt_enhancer(agent_name, reply)
      user_content == q.calls[Len(q.calls)].message[1]
      fragment_info == FragmentInfo(q.fragment_num, agent_name, enh, user_content)
  IN  IF enh.exc # NoExc THEN Failed_with(q, enh.exc)
      ELSE [q EXCEPT !.result = << [result EXCEPT !.fragments = Append(@, fragment_info)] >>,
                     !.costs = RecordFragmentCost(q.costs, enh.cost),
                     !.pc = IF q.fragment_num < result.num_fragments
                              THEN "fragment" ELSE "finalize",
                     !.fragment_num = q.fragment_num + 1]

FragmentReturn(r, reply) ==
  /\ req[r].pc = "fragment_wait"
  /\ req' = [req EXCEPT ![r] = AfterFragment(req[r], reply)]
  /\ UNCHANGED <<api_key, latest_result, last_returned, route_in, route_out, cost_in, cost_out>>

\* Line 595: the total is rounded; result["costs"] is the costs object.
FinalResult(q) == WithCosts(q.result[1], RoundTotal(q.costs))

\* Lines 595-603: the finalized result is assigned to latest_result; the
\* handler has not returned yet.
StoreResult(r) ==
  /\ req[r].pc = "finalize"
  /\ latest_result' = << FinalResult(req[r]) >>
  /\ req' = [req EXCEPT ![r] =
               [req[r] EXCEPT !.pc = "return", !.result = << FinalResult(req[r]) >>,
                              !.costs = RoundTotal(req[r].costs), !.stored = TRUE]]
  /\ UNCHANGED <<api_key, last_returned, route_in, route_out, cost_in, cost_out>>

\* Lines 525 and 605: return jsonify(result), inside the try block.  The
\* handler answers 200 with the result, or jsonify raises and the last except
\* clause answers 500; latest_result was assigned one step before and stays.
ReturnResult(r) ==
  /\ req[r].pc = "return"
  /\ LET out == jsonify(req[r].result[1])
     IN  IF out.raised # NoExc
           THEN /\ req' = [req EXCEPT ![r] = Failed_with(req[r], out.raised)]
                /\ last_returned' = last_returned
           ELSE /\ req' = [req EXCEPT ![r] = Returned(req[r], out.response)]
                /\ last_returned' = out.response.body
  /\ UNCHANGED <<api_key, latest_result, route_in, route_out, cost_in, cost_out>>

\* ------------------------------------------------------------------------
\* GET /result
\* ------------------------------------------------------------------------

\* Lines 623-625.  jsonify(latest_result) is outside any try block: when it
\* raises, Flask answers 500, in debug mode with the debugger's page, which
\* names the exception, and otherwise with its "Internal Server Error" page.
get_result(slot) ==
  IF slot = <<>>
    THEN Response(404, <<"No results available. Run the pipeline first.">>, <<>>)
  ELSE IF jsonify(slot[1]).raised # NoExc
    THEN Response(500,
                  IF DEBUG_MODE
                    THEN <<jsonify(slot[1]).raised.type, ": ", jsonify(slot[1]).raised.msg>>
                    ELSE <<"Internal Server Error">>,
                  <<>>)
  ELSE jsonify(slot[1]).response

\* The handler reads the slot and changes nothing; what it answers in a state
\* is get_result(latest_result).  The slot never goes back to None, so the
\* test of line 623 and the read of line 625 see the same case, and the
\* answer is that of the state in which line 625 (or 623, for 404) runs.
GetResult ==
  /\ get_result(latest_result).status \in {200, 404, 500}
  /\ UNCHANGED vars

Next ==
  \/ \E r \in Requests, form \in Forms : Validate(r, form)
  \/ \E r \in Requests : GetClient(r)
  \/ \E r \in Requests : Agent1Call(r)
  \/ \E r \in Requests, reply \in Agent1Replies : Agent1Return(r, reply)
  \/ \E r \in Requests : StoreBlocked(r)
  \/ \E r \in Requests : FragmentCall(r)
  \/ \E r \in Requests, reply \in EnhancerReplies : FragmentReturn(r, reply)
  \/ \E r \in Requests : StoreResult(r)
  \/ \E r \in Requests : ReturnResult(r)
  \/ GetResult

Spec == Init /\ [][Next]_vars

\* ------------------------------------------------------------------------
\* determine_route on its own: every analysis and routing configuration
\* ------------------------------------------------------------------------

RouteAnalyses ==
  { [NoObj EXCEPT !["nsfw"] = n, !["minor_under_16"] = m] :
      n \in {Absent, PyBool(TRUE), PyBool(FALSE), PyNone, PyInt("1"), PyFloat("0.0"),
             PyList("[]")},
      m \in {Absent, PyStr("no"), PyStr("yes"), PyStr("unclear"), PyStr("maybe"), PyNone} }

RouteInputs ==
  [analysis : RouteAnalyses, route_to_adult : BOOLEAN,
   gate_allowed : {GATE_ALLOWED_VALUES, <<"no", "unclear">>}]

InitRoute ==
  /\ api_key = TRUE
  /\ latest_result = <<>>
  /\ req = [r \in Requests |-> IdleReq]
  /\ last_returned = <<>>
  /\ route_in \in RouteInputs
  /\ route_out = <<>>
  /\ cost_in = NoCostIn
  /\ cost_out = <<>>

Route ==
  /\ route_out = <<>>
  /\ route_out' = << route_with(route_in.analysis, route_in.route_to_adult,
                                route_in.gate_allowed) >>
  /\ UNCHANGED <<api_key, latest_result, req, last_returned, route_in, cost_in, cost_out>>

NextRoute == Route

SpecRoute == InitRoute /\ [][NextRoute]_vars

\* ------------------------------------------------------------------------
\* calculate_cost on its own: models in and out of the pricing table, every
\* token count up to MaxTokens
\* ------------------------------------------------------------------------

CostModels == {AGENT1_MODEL, "grok-4", "_default", "grok-3-mini", ""}

CostInputs ==
  [model : CostModels, input_tokens : 0..MaxTokens, output_tokens : 0..MaxTokens]

InitCost ==
  /\ api_key = TRUE
  /\ latest_result = <<>>
  /\ req = [r \in Requests |-> IdleReq]
  /\ last_returned = <<>>
  /\ route_in = NoRouteIn
  /\ route_out = <<>>
  /\ cost_in \in CostInputs
  /\ cost_out = <<>>

Cost ==
  /\ cost_out = <<>>
  /\ cost_out' = << calculate_cost(cost_in.model, cost_in.input_tokens,
                                    cost_in.output_tokens) >>
  /\ UNCHANGED <<api_key, latest_result, req, last_returned, route_in, route_out, cost_in>>

NextCost == Cost

SpecCost == InitCost /\ [][NextCost]_vars

\* ========================================================================
\* Properties
\* ========================================================================

\* C2: in NSFW-conditional mode, an analysis whose nsfw is false or missing,
\* or any analysis when adult routing is disabled, is routed to the neutral
\* path (agent2) with gate_applied = false and gate_passed = None, whatever
\* minor_under_16 is; the decision is never "blocked" there.
C2_NeutralBypassesGate ==
  (route_out # <<>> /\
     (route_in.analysis["nsfw"] \in {PyBool(FALSE), Absent} \/ ~route_in.route_to_adult))
  => /\ route_out[1].agent = "agent2"
     /\ route_out[1].agent # "blocked"
     /\ route_out[1].gate_applied = FALSE
     /\ route_out[1].gate_passed = "None"

\* C2 witness: nsfw false with minor_under_16 "yes" and adult routing enabled
\* has been routed to the neutral path.
C2_Witness ==
  /\ route_out # <<>>
  /\ route_in.route_to_adult
  /\ route_in.analysis["nsfw"] = PyBool(FALSE)
  /\ route_in.analysis["minor_under_16"] = PyStr("yes")
  /\ route_out[1].agent = "agent2"

\* The minor_under_16 value the gate sees: "unclear" when the field is missing.
EffectiveMinor(analysis) ==
  IF analysis["minor_under_16"] = Absent THEN PyStr("unclear")
  ELSE analysis["minor_under_16"]

\* C3: with nsfw true and adult routing enabled the gate is always applied;
\* the decision is agent3 with gate_passed = true exactly when minor_under_16
\* (missing = "unclear") is in the allow-list, and "blocked" with gate_passed =
\* false otherwise; under the shipped allow-list "yes", "unclear", an unknown
\* value and a missing field are all blocked.
C3_GateDecidesAdultPath ==
  (route_out # <<>> /\ route_in.analysis["nsfw"] = PyBool(TRUE) /\ route_in.route_to_adult)
  => LET allowed == \E k \in 1..Len(route_in.gate_allowed) :
                       PyStr(route_in.gate_allowed[k]) = EffectiveMinor(route_in.analysis)
     IN  /\ route_out[1].gate_applied = TRUE
         /\ route_out[1].agent \in {"agent3", "blocked"}
         /\ (route_out[1].agent = "agent3") <=> allowed
         /\ (route_out[1].gate_passed = "True") <=> allowed
         /\ (route_out[1].agent = "blocked") <=> (route_out[1].gate_passed = "False")
         /\ (route_in.gate_allowed = GATE_ALLOWED_VALUES /\
               route_in.analysis["minor_under_16"] \in
                 {PyStr("yes"), PyStr("unclear"), PyStr("maybe"), PyNone, Absent})
            => route_out[1].agent = "blocked"

\* C3 witness: nsfw true without a minor_under_16 field has been blocked under
\* the shipped allow-list.
C3_Witness ==
  /\ route_out # <<>>
  /\ route_in.route_to_adult
  /\ route_in.gate_allowed = GATE_ALLOWED_VALUES
  /\ route_in.analysis["nsfw"] = PyBool(TRUE)
  /\ route_in.analysis["minor_under_16"] = Absent
  /\ route_out[1].agent = "blocked"
  /\ route_out[1].gate_passed = "False"

\* ------------------------------------------------------------------------
\* The pipeline: what is read off a state
\* ------------------------------------------------------------------------

Done(r) == req[r].pc = "done"

Succeeded(r) == Done(r) /\ req[r].response[1].status = 200

Failed(r) == Done(r) /\ req[r].response[1].status # 200

Body(r) == req[r].response[1].body[1]

\* Every result that has been returned by /run or is held in the slot.
Results ==
  { Body(r) : r \in {x \in Requests : Succeeded(x)} } \cup
  { latest_result[k] : k \in 1..Len(latest_result) }

EnhancerCalls(calls) == { k \in 1..Len(calls) : calls[k].agent # "agent1" }

\* C1: a blocked request's result, as returned and as stored, has no
\* fragments, the request has issued no enhancer call, and the cost total
\* (the three token counts and USD) is exactly the analysis call's record.
C1_BlockedIsEmptyAndCostsAnalysisOnly ==
  /\ \A res \in Results :
       res.routing.agent = "blocked" =>
         /\ res.fragments = <<>>
         /\ res.blocked
         /\ res.costs[1].fragments = <<>>
         /\ Len(res.costs[1].agent1) = 1
         /\ res.costs[1].total.input_tokens = res.costs[1].agent1[1].input_tokens
         /\ res.costs[1].total.output_tokens = res.costs[1].agent1[1].output_tokens
         /\ res.costs[1].total.total_tokens = res.costs[1].agent1[1].total_tokens
         /\ res.costs[1].total.total_cost_usd = res.costs[1].agent1[1].total_cost_usd
         /\ res.costs[1].agent1[1].input_tokens = res.agent1_details.usage.prompt_tokens
         /\ res.costs[1].agent1[1].output_tokens = res.agent1_details.usage.completion_tokens
  /\ \A r \in Requests :
       (req[r].result # <<>> /\ req[r].result[1].routing.agent = "blocked")
         => EnhancerCalls(req[r].calls) = {}
  /\ \A r \in Requests :
       (Succeeded(r) /\ Body(r).routing.agent = "blocked")
         => (Len(req[r].calls) = 1 /\ EnhancerCalls(req[r].calls) = {})

\* C1 witness: a blocked request has returned, its result is in the slot and
\* its analysis call cost something.
C1_Witness ==
  \E r \in Requests :
    /\ Succeeded(r)
    /\ Body(r).routing.agent = "blocked"
    /\ latest_result = << Body(r) >>
    /\ Body(r).costs[1].total.total_cost_usd > 0

\* The form breaks one of the input rules of /run: no image, a prompt that is
\* empty after trimming, a duration that is not one of the allowed durations
\* (a text that is no integer is none of them), a MIME type outside the
\* allow-list, or an image above the size ceiling.
DurationAllowed(form) ==
  \/ form.duration = <<>>
  \/ /\ IntParse(form.duration[1]) # <<>>
     /\ \E k \in 1..Len(VIDEO_DURATIONS) : VIDEO_DURATIONS[k] = IntParse(form.duration[1])[1]

ViolatesValidation(form) ==
  \/ ~form.has_image
  \/ form.prompt = <<>>
  \/ Strip(form.prompt[1]) = <<>>
  \/ ~DurationAllowed(form)
  \/ form.content_type \notin {ALLOWED_IMAGE_TYPES[k] : k \in 1..Len(ALLOWED_IMAGE_TYPES)}
  \/ form.size > MAX_IMAGE_SIZE_BYTES

\* C4: a request that violates input validation never creates a client and
\* never issues a call to the external model, neither the analysis call nor
\* an enhancer call.
C4_InvalidInputMakesNoCall ==
  \A r \in Requests :
    (req[r].pc # "idle" /\ ViolatesValidation(req[r].form))
      => /\ req[r].calls = <<>>
         /\ ~req[r].client
         /\ Done(r)

\* C4 witness: an oversized image with an otherwise valid form was answered
\* without any call.
C4_Witness ==
  \E r \in Requests :
    /\ Done(r)
    /\ req[r].form.size > MAX_IMAGE_SIZE_BYTES
    /\ req[r].form.content_type = "image/png"
    /\ req[r].response[1].status = 400
    /\ req[r].calls = <<>>

\* C5: every request that violates input validation is answered with status
\* 400 and an error string, and 500 is given only to requests that passed
\* validation; in particular a duration that is not one of the allowed
\* durations gives 400 whatever its form.
C5_ValidationErrorsAre400 ==
  \A r \in Requests :
    (Done(r) /\ ViolatesValidation(req[r].form))
      => /\ req[r].response[1].status = 400
         /\ req[r].response[1].error # <<>>

\* C6: a completed request that is not blocked has duration \div
\* FRAGMENT_LENGTH fragments (1 for 5 seconds, 2 for 10), as many as
\* num_fragments reports, numbered 1..n in list order, fragment k covering
\* [(k-1) * FRAGMENT_LENGTH, k * FRAGMENT_LENGTH].
FragmentsWellFormed(res) ==
  /\ Len(res.fragments) = res.duration \div FRAGMENT_LENGTH
  /\ Len(res.fragments) = res.num_fragments
  /\ res.duration = 5 => Len(res.fragments) = 1
  /\ res.duration = 10 => Len(res.fragments) = 2
  /\ \A k \in 1..Len(res.fragments) :
       /\ res.fragments[k].fragment_number = k
       /\ res.fragments[k].time_range.start = (k - 1) * FRAGMENT_LENGTH
       /\ res.fragments[k].time_range.end = k * FRAGMENT_LENGTH

C6_FragmentCountAndNumbering ==
  /\ \A res \in Results : res.routing.agent # "blocked" => FragmentsWellFormed(res)
  /\ \A r \in Requests :
       Succeeded(r) =>
         Body(r).duration = IF req[r].form.duration = <<>> THEN DEFAULT_DURATION
                            ELSE IntParse(req[r].form.duration[1])[1]

\* C6 witness: a 10-second request has completed with two fragments.
C6_Witness ==
  \E r \in Requests :
    /\ Succeeded(r)
    /\ req[r].form.duration = << <<"1", "0">> >>
    /\ Len(Body(r).fragments) = 2
    /\ Body(r).fragments[2].fragment_number = 2

\* The fragments a request has generated so far, while its handler runs or
\* after it has returned them.
FragmentsOf(r) ==
  IF Succeeded(r) THEN Body(r).fragments
  ELSE IF req[r].result # <<>> THEN req[r].result[1].fragments
  ELSE <<>>

\* The prompt text an enhancer reply carried, read off the raw reply.
ReturnedPrompt(fragment) == fragment.details.raw_content[1].obj["prompt"]

\* C7: the call for fragment 1 carries no continuation; the call for fragment
\* k > 1 carries exactly the prompt text returned by this request's fragment
\* k-1 call and fragment k-1's time range; every message carries the request's
\* own prompt and image description.
C7_ContinuationThreading ==
  \A r \in Requests :
    \A j \in 1..Len(req[r].calls) :
      LET call == req[r].calls[j]
          frags == FragmentsOf(r)
      IN  /\ (j = 1) <=> (call.agent = "agent1")
          /\ j = 1 => call.message = <<>>
          /\ j > 1 => /\ Len(call.message) = 1
                      /\ call.message[1].user_prompt = Strip(req[r].form.prompt[1])
          /\ j = 2 => call.message[1].continuation = <<>>
          /\ (j > 2 /\ Len(frags) >= j - 2) =>
               /\ Len(call.message[1].continuation) = 1
               /\ call.message[1].continuation[1].prompt = ReturnedPrompt(frags[j - 2])
               /\ call.message[1].continuation[1].prompt # Absent
               /\ call.message[1].continuation[1].time_range.start = (j - 3) * FRAGMENT_LENGTH
               /\ call.message[1].continuation[1].time_range.end = (j - 2) * FRAGMENT_LENGTH
          /\ (j > 1 /\ Len(frags) >= j - 1) =>
               frags[j - 1].details.user_content = call.message[1]

\* C7 witness: a request has issued its fragment 2 call with "t2", the text
\* its own fragment 1 returned, while another request's fragment 1 returned
\* "t1".
C7_Witness ==
  \E r \in Requests, o \in Requests :
    /\ r # o
    /\ Len(req[r].calls) = 3
    /\ req[r].calls[3].message[1].continuation # <<>>
    /\ req[r].calls[3].message[1].continuation[1].prompt = PyStr("t2")
    /\ Len(FragmentsOf(o)) >= 1
    /\ ReturnedPrompt(FragmentsOf(o)[1]) = PyStr("t1")

\* C8: a /run request that has failed, at whatever point (a validation
\* error, a missing credential, an external-call error, malformed model
\* output, a failure on a later fragment), has not written latest_result.
C8_FailedRunLeavesSlot ==
  \A r \in Requests : Failed(r) => ~req[r].stored

\* C9: in every state in which no /run has completed (failed ones do not
\* count) GET /result answers 404, and in every other state it answers 200
\* with exactly the result of the /run that completed last, whatever failed
\* since or meanwhile.
C9_GetResultReturnsLastCompleted ==
  LET answer == get_result(latest_result)
  IN  /\ (\A r \in Requests : ~Succeeded(r)) <=> (answer.status = 404)
      /\ (\E r \in Requests : Succeeded(r)) <=> (answer.status = 200)
      /\ answer.status = 200 =>
           /\ answer.body = last_returned
           /\ \E r \in Requests : Succeeded(r) /\ answer.body = << Body(r) >>
      /\ answer.status = 404 => (last_returned = <<>> /\ answer.body = <<>>)

RECURSIVE SumOf(_, _)
SumOf(records, field) ==
  IF records = <<>> THEN 0 ELSE Head(records)[field] + SumOf(Tail(records), field)

\* C10: in every result returned or stored, each cost total (input tokens,
\* output tokens, total tokens, USD) is the analysis record's value plus the
\* sum over the fragment records, and the fragment cost list holds the
\* fragments' cost records in fragment order.
C10_TotalsAreSumOfRecords ==
  \A res \in Results :
    LET c == res.costs[1]
    IN  /\ Len(res.costs) = 1
        /\ Len(c.agent1) = 1
        /\ Len(c.fragments) = Len(res.fragments)
        /\ \A k \in 1..Len(res.fragments) : c.fragments[k] = res.fragments[k].cost
        /\ c.total.input_tokens =
             c.agent1[1].input_tokens + SumOf(c.fragments, "input_tokens")
        /\ c.total.output_tokens =
             c.agent1[1].output_tokens + SumOf(c.fragments, "output_tokens")
        /\ c.total.total_tokens =
             c.agent1[1].total_tokens + SumOf(c.fragments, "total_tokens")
        /\ c.total.total_cost_usd =
             c.agent1[1].total_cost_usd + SumOf(c.fragments, "total_cost_usd")

\* C10 witness: a two-fragment result is stored whose analysis call and both
\* fragment calls cost something, with two different fragment costs.
C10_Witness ==
  /\ latest_result # <<>>
  /\ Len(latest_result[1].fragments) = 2
  /\ latest_result[1].costs[1].agent1[1].total_cost_usd > 0
  /\ latest_result[1].costs[1].fragments[1].total_cost_usd > 0
  /\ latest_result[1].costs[1].fragments[2].total_cost_usd >
       latest_result[1].costs[1].fragments[1].total_cost_usd

\* A request whose handler left through an except clause after validation
\* had passed: the failure of a pipeline run.
PipelineFailure(r) ==
  Done(r) /\ req[r].failure # NoExc /\ ~ViolatesValidation(req[r].form)

ErrorParts(r) == { req[r].response[1].error[k] : k \in 1..Len(req[r].response[1].error) }

\* C11: a failed pipeline run is answered with status 500 and an error that
\* carries the failure's kind and message: a model reply that does not parse
\* as JSON is reported as a parse failure with the parse detail, an upstream
\* call failure with its exception type, and no response of one kind equals a
\* response of another kind.
C11_FailureKindsReported ==
  \A r \in Requests :
    PipelineFailure(r) =>
      /\ req[r].response[1].status = 500
      /\ req[r].failure.msg \in ErrorParts(r)
      /\ req[r].failure.type = "JSONDecodeError" =>
           req[r].response[1].error =
             <<"Failed to parse JSON response: ", req[r].failure.msg>>
      /\ req[r].failure.type \notin {"ValueError", "JSONDecodeError"} =>
           req[r].failure.type \in ErrorParts(r)
      /\ \A o \in Requests :
           (PipelineFailure(o) /\ req[o].failure.type # req[r].failure.type)
             => req[o].response[1].error # req[r].response[1].error

\* The kind of a routing reason: its fixed text, apart from the values it
\* quotes (the classification and the allow-list).
ReasonKind(decision) == decision.reason[1]

\* The analyses the gate blocks, under the configuration of this state, on an
\* ambiguous or unrecognized classification ("unclear", a missing field, a
\* value outside the known set).
AmbiguousBlocks ==
  { a \in RouteAnalyses :
      /\ EffectiveMinor(a) \notin {PyStr("yes"), PyStr("no")}
      /\ route_with(a, route_in.route_to_adult, route_in.gate_allowed).agent = "blocked" }

\* C12 as claimed: a block caused by minor_under_16 = "yes" carries a reason
\* of a different kind than any block caused by "unclear" or by a value
\* outside the known set.
C12_ReasonKindDistinguishes ==
  (route_out # <<>> /\ route_out[1].agent = "blocked"
     /\ EffectiveMinor(route_in.analysis) = PyStr("yes"))
  => \A a \in AmbiguousBlocks :
       ReasonKind(route_with(a, route_in.route_to_adult, route_in.gate_allowed))
         # ReasonKind(route_out[1])

\* C12 amended: every block carries the one kind of reason, which quotes the
\* classification that caused it (a missing field as "unclear") followed by
\* the allow-list; a block on "yes" differs from a block on "unclear" or on
\* an unknown value in the quoted value only.
C12_BlockReasonQuotesValue ==
  (route_out # <<>> /\ route_out[1].agent = "blocked")
  => /\ ReasonKind(route_out[1]) = "Adult content blocked: minor_under_16="
     /\ route_out[1].reason[2] = EffectiveMinor(route_in.analysis).v
     /\ route_out[1].reason[3] = "requires"
     /\ SubSeq(route_out[1].reason, 4, Len(route_out[1].reason)) = route_in.gate_allowed
     /\ \A a \in AmbiguousBlocks :
          LET other == route_with(a, route_in.route_to_adult, route_in.gate_allowed)
          IN  /\ ReasonKind(other) = ReasonKind(route_out[1])
              /\ (other.reason = route_out[1].reason)
                   <=> (EffectiveMinor(a).v = EffectiveMinor(route_in.analysis).v)

\* C12 witness: a block on "yes" under the shipped allow-list, quoting "yes".
C12_Witness ==
  /\ route_out # <<>>
  /\ route_out[1].agent = "blocked"
  /\ route_in.gate_allowed = GATE_ALLOWED_VALUES
  /\ route_in.analysis["minor_under_16"] = PyStr("yes")
  /\ route_out[1].reason[2] = "yes"
  /\ AmbiguousBlocks # {}

Abs(x) == IF x < 0 THEN 0 - x ELSE x

\* One unit of the 6th decimal, in 10^-8 USD.
Micro == 100

\* C13: calculate_cost returns a record for every model and token counts;
\* each cost in it is tokens x price / 1,000,000 rounded to 6 decimals, the
\* total is at most one unit of the 6th decimal away from input cost plus
\* output cost, and the pricing applied is the table's entry for a model in
\* the table and the "_default" entry exactly for the models absent from it.
C13_CostRecord ==
  cost_out # <<>> =>
    LET c == cost_out[1]
        in_table == cost_in.model \in DOMAIN MODEL_PRICING
        price == IF in_table THEN MODEL_PRICING[cost_in.model]
                 ELSE MODEL_PRICING["_default"]
        exact_in == cost_in.input_tokens * price.input_per_million
        exact_out == cost_in.output_tokens * price.output_per_million
    IN  /\ Len(cost_out) = 1
        /\ c.model = cost_in.model
        /\ c.input_tokens = cost_in.input_tokens
        /\ c.output_tokens = cost_in.output_tokens
        /\ c.total_tokens = cost_in.input_tokens + cost_in.output_tokens
        /\ 2 * Abs(c.input_cost_usd - exact_in) <= Micro
        /\ 2 * Abs(c.output_cost_usd - exact_out) <= Micro
        /\ 2 * Abs(c.total_cost_usd - (exact_in + exact_out)) <= Micro
        /\ Abs(c.total_cost_usd - (c.input_cost_usd + c.output_cost_usd)) <= Micro
        /\ c.input_cost_usd % Micro = 0
        /\ c.output_cost_usd % Micro = 0
        /\ c.total_cost_usd % Micro = 0
        /\ c.pricing = price
        /\ ~in_table => c.pricing = MODEL_PRICING["_default"]
        /\ (in_table /\ MODEL_PRICING[cost_in.model] # MODEL_PRICING["_default"])
             => c.pricing # MODEL_PRICING["_default"]

\* C13 witness: a model absent from the table was priced with the default
\* pair, and the rounded total is exactly one unit of the 6th decimal above
\* the sum of the rounded input and output costs.
C13_Witness ==
  /\ cost_out # <<>>
  /\ cost_in.model \notin DOMAIN MODEL_PRICING
  /\ cost_out[1].pricing = MODEL_PRICING["_default"]
  /\ cost_in.output_tokens > 0
  /\ cost_out[1].total_cost_usd =
       cost_out[1].input_cost_usd + cost_out[1].output_cost_usd + Micro

\* Every fragment a request has built or returned, and those in the slot.
AllFragments ==
  UNION { { FragmentsOf(r)[k] : k \in 1..Len(FragmentsOf(r)) } : r \in Requests }
  \cup UNION { { res.fragments[k] : k \in 1..Len(res.fragments) } : res \in Results }

\* C14 as claimed: every fragment, fragment 1 included, records the caveat
\* that continuation reuses the uploaded image.
C14_EveryFragmentHasCaveat ==
  \A f \in AllFragments : f.demo_note = << DemoNote >>

\* C14 amended: a fragment records the caveat exactly when it is fragment 2
\* or later; fragment 1 has no such entry.
C14_CaveatFromFragmentTwo ==
  \A f \in AllFragments :
    /\ f.fragment_number > 1 => f.demo_note = << DemoNote >>
    /\ f.fragment_number = 1 => f.demo_note = <<>>

\* C14 witness: a returned two-fragment result whose fragment 2 carries the
\* caveat and whose fragment 1 does not.
C14_Witness ==
  \E r \in Requests :
    /\ Succeeded(r)
    /\ Len(Body(r).fragments) = 2
    /\ Body(r).fragments[1].demo_note = <<>>
    /\ Body(r).fragments[2].demo_note = << DemoNote >>

\* The cost of one call at full precision: tokens x price, unrounded.
ExactCost(record) ==
  record.input_tokens * record.pricing.input_per_million
    + record.output_tokens * record.pricing.output_per_million

RECURSIVE ExactSum(_)
ExactSum(records) ==
  IF records = <<>> THEN 0 ELSE ExactCost(Head(records)) + ExactSum(Tail(records))

\* The per-call cost records of a result: the analysis call, then the fragments.
CallRecords(res) == res.costs[1].agent1 \o res.costs[1].fragments

\* C15 as claimed: total_cost_usd is the sum of the unrounded per-call costs
\* rounded to 6 decimals once (a decimal tie may round either way).
C15_TotalRoundedOnce ==
  \A res \in Results :
    res.costs[1].total.total_cost_usd \in
      { Round6(ExactSum(CallRecords(res)), FALSE), Round6(ExactSum(CallRecords(res)), TRUE) }

\* C15 amended: each call's cost is rounded to 6 decimals when it is
\* calculated, and total_cost_usd is the sum of these rounded per-call totals
\* (rounding the sum to 6 decimals again leaves it as it is); it lies within
\* half a unit of the 6th decimal per call of the full-precision sum.
C15_TotalSumsRoundedCalls ==
  \A res \in Results :
    LET records == CallRecords(res)
        total == res.costs[1].total.total_cost_usd
    IN  /\ \A k \in 1..Len(records) :
             /\ records[k].total_cost_usd % Micro = 0
             /\ 2 * Abs(records[k].total_cost_usd - ExactCost(records[k])) <= Micro
        /\ total = Round6(SumOf(records, "total_cost_usd"), FALSE)
        /\ total = SumOf(records, "total_cost_usd")
        /\ 2 * Abs(total - ExactSum(records)) <= Len(records) * Micro

\* C15 witness: a stored two-call result whose total is not the full-precision
\* sum rounded once, whichever way a tie is rounded.
C15_Witness ==
  /\ latest_result # <<>>
  /\ Len(CallRecords(latest_result[1])) = 2
  /\ latest_result[1].costs[1].total.total_cost_usd \notin
       { Round6(ExactSum(CallRecords(latest_result[1])), FALSE),
         Round6(ExactSum(CallRecords(latest_result[1])), TRUE) }

\* The step issues an external call of request r.
IssuesCall(r) == Len(req'[r].calls) = Len(req[r].calls) + 1

\* C16: within one request the external calls are issued one at a time in
\* the order analysis, fragment 1, ..., fragment n.  Every step keeps the
\* calls already issued; a step that issues a call finds no call of the
\* request in flight and no failure on record, issues the analysis call if
\* none was issued, and otherwise the enhancer call of the next fragment
\* after all earlier calls have returned successfully (the analysis is
\* parsed and fragments 1..k-1 are built); a request that has returned,
\* failed or not, issues no call any more.
C16_CallsInOrderNoRetry ==
  [][ \A r \in Requests :
        LET q == req[r]
            n == Len(q.calls)
        IN  /\ Len(req'[r].calls) \in {n, n + 1}
            /\ SubSeq(req'[r].calls, 1, n) = q.calls
            /\ q.pc = "done" => req'[r].calls = q.calls
            /\ IssuesCall(r) =>
                 /\ q.pc \in {"agent1", "fragment"}
                 /\ q.failure = NoExc
                 /\ req'[r].pc \in {"agent1_wait", "fragment_wait"}
                 /\ IF n = 0
                      THEN /\ req'[r].calls[1].agent = "agent1"
                           /\ q.result = <<>>
                      ELSE /\ req'[r].calls[n + 1].agent \in {"agent2", "agent3"}
                           /\ q.result # <<>>
                           /\ req'[r].calls[n + 1].agent = q.result[1].routing.agent
                           /\ Len(q.result[1].fragments) = n - 1
                           /\ n <= q.result[1].num_fragments
                           /\ q.fragment_num = n
            /\ (q.pc \in {"agent1_wait", "fragment_wait"} /\ req'[r] # q
                  /\ req'[r].failure # NoExc)
                 => (req'[r].pc = "done" /\ req'[r].calls = q.calls) ]_vars

\* C16 witness: a 10-second request whose fragment 1 call failed has returned
\* with two calls issued (analysis and fragment 1), while another request
\* went through all three of its calls.
C16_Witness ==
  \E r \in Requests, o \in Requests :
    /\ Failed(r)
    /\ req[r].failure.type = "APIConnectionError"
    /\ req[r].form.duration = << <<"1", "0">> >>
    /\ Len(req[r].calls) = 2
    /\ Succeeded(o)
    /\ Len(req[o].calls) = 3

\* The requests a step completes with status 200.
Completing ==
  { r \in Requests :
      req[r].pc # "done" /\ req'[r].pc = "done" /\ req'[r].response[1].status = 200 }

\* A finalized result: blocked without fragments or with all its fragments,
\* one cost record per call, the USD total rounded to 6 decimals.
Finalized(res) ==
  /\ IF res.routing.agent = "blocked"
       THEN res.blocked /\ res.fragments = <<>>
       ELSE ~res.blocked /\ Len(res.fragments) = res.num_fragments
  /\ Len(res.costs) = 1
  /\ Len(res.costs[1].agent1) = 1
  /\ Len(res.costs[1].fragments) = Len(res.fragments)
  /\ res.costs[1].total.total_cost_usd % Micro = 0

\* Every part of the result comes from the locals of the one handler q.
BuiltFrom(res, q) ==
  /\ q.result # <<>>
  /\ res.duration = q.duration
  /\ res.agent1_result = q.result[1].agent1_result
  /\ res.agent1_details = q.result[1].agent1_details
  /\ res.routing = q.result[1].routing
  /\ res.fragments = q.result[1].fragments
  /\ res.costs[1].agent1 = q.costs.agent1
  /\ res.costs[1].fragments = q.costs.fragments
  /\ \A k \in 1..Len(res.fragments) :
       res.fragments[k].details.user_content.user_prompt = q.user_prompt

\* C17: under every interleaving of /run and /result requests the slot
\* changes only in the step that completes a request with status 200, normal
\* or blocked, which is that request's last step; the slot then holds that
\* request's finalized result, built from its own locals alone and equal to
\* what it returns.  Every other step, of any request and of /result, leaves
\* the slot as it is, so a stored result is never modified and the slot is
\* always absent or the result of the completed request that wrote last.
C17_SlotWrittenOnceWhole ==
  [][ /\ Completing = {} => latest_result' = latest_result
      /\ \A r \in Completing :
           /\ Completing = {r}
           /\ Len(latest_result') = 1
           /\ latest_result' = req'[r].response[1].body
           /\ latest_result' = last_returned'
           /\ Finalized(latest_result'[1])
           /\ BuiltFrom(latest_result'[1], req[r])
      /\ \A r \in Requests : req[r].pc = "done" => req'[r] = req[r]
      /\ latest_result' # <<>> =>
           \E r \in Requests :
             /\ req'[r].pc = "done" /\ req'[r].response[1].status = 200
             /\ latest_result' = req'[r].response[1].body ]_vars

====
